---- MODULE Spec2Model ----
(***************************************************************************)
(* Model of the TimeWarp Focus task store (src/src/app/store/              *)
(* useTaskStore.ts), the procrastinate handler of TaskManager.tsx and the  *)
(* FocusTimer component (src/unnamed/part_002).                            *)
(*                                                                         *)
(* Time is in whole seconds.  timeRemaining and initialTime are kept in    *)
(* sixtieths of a second (Scale), so that every multiplier of the          *)
(* distortion curve is an integer number of sixtieths.                     *)
(***************************************************************************)
EXTENDS Integers, Sequences, FiniteSets, TLC

VARIABLES
    tasks,              \* store: id -> Task, for the tasks in the list
    focusSessions,      \* store: sequence of closed sessions
    currentFocusState,  \* store: 'idle' | 'focus' | 'break' | 'distorted'
    currentSession,     \* store: the open session, or NoSession
    productivityStats,  \* store: counters
    achievements,       \* store: achievement id -> [isUnlocked, unlockedAt]
    now,                \* the wall clock (new Date(), Date.now()), seconds
    nextId,             \* the next uuidv4() of a task
    nextSessionId,      \* the next uuidv4() of a session
    mounted,            \* FocusTimer is rendered (the focus tab is shown)
    taskId,             \* FocusTimer prop: the selected task, or NoTask
    timeRemaining,      \* FocusTimer state, in sixtieths of a second
    initialTime,        \* FocusTimer state, in sixtieths of a second
    timerState,         \* FocusTimer state: one of TIMER_STATES
    distortionLevel,    \* FocusTimer state: 0..100
    lastTickTime,       \* FocusTimer ref: time of the last tick, or Undefined
    everCompleted,      \* history: ids that made a first transition to completed
    procCount,          \* history: id -> procrastinate calls on an otherwise untouched task
    runAwayCalls,       \* history: number of makeTaskRunAway calls so far
    run,                \* history of the current countdown: plain, ticked, fired,
                        \* resumed (time of a resume not yet followed by a tick)
    pending             \* the multiplier of a cleared interval whose callback may
                        \* still run once, or NoTick; Untracked where cleared
                        \* intervals and resumes are not followed

storeVars == <<tasks, focusSessions, currentFocusState, currentSession,
               productivityStats, achievements>>
envVars == <<now, nextId, nextSessionId>>
timerVars == <<mounted, taskId, timeRemaining, initialTime, timerState,
               distortionLevel, lastTickTime>>
histVars == <<everCompleted, procCount, runAwayCalls, run>>
vars == <<tasks, focusSessions, currentFocusState, currentSession,
          productivityStats, achievements, now, nextId, nextSessionId,
          mounted, taskId, timeRemaining, initialTime, timerState,
          distortionLevel, lastTickTime, everCompleted, procCount,
          runAwayCalls, run, pending>>

----------------------------------------------------------------------------
(* Values *)

Undefined == -1
NoTask == 0
NoSession == [id |-> 0]
Scale == 60

AchievementIds == {"first-task", "five-tasks-completed", "procrastination-master",
                   "time-bender", "deadline-warrior"}

PREDEFINED_ACHIEVEMENTS ==
    [a \in AchievementIds |-> [isUnlocked |-> FALSE, unlockedAt |-> Undefined]]

TIMER_IDLE == "idle"
TIMER_RUNNING == "running"
TIMER_PAUSED == "paused"
TIMER_COMPLETED == "completed"
TIMER_DISTORTED == "distorted"

Min(a, b) == IF a < b THEN a ELSE b
Max(a, b) == IF a > b THEN a ELSE b

(* { ...task, ...taskUpdate } *)
Merge(task, patch) ==
    [f \in DOMAIN task |-> IF f \in DOMAIN patch THEN patch[f] ELSE task[f]]

(* state.tasks.map(task => task.id === id ? { ...task, ...taskUpdate } : task) *)
MapTask(ts, id, patch) ==
    [t \in DOMAIN ts |-> IF t = id THEN Merge(ts[t], patch) ELSE ts[t]]

(* state.tasks.filter(task => task.id !== id) *)
FilterTask(ts, id) == [t \in (DOMAIN ts) \ {id} |-> ts[t]]

(* updateAchievement's map over state.achievements *)
Unlocked(ach, achievementId, t) ==
    [a \in DOMAIN ach |->
        IF a = achievementId THEN [isUnlocked |-> TRUE, unlockedAt |-> t] ELSE ach[a]]

NoRun == [plain |-> FALSE, ticked |-> 0, fired |-> 0, resumed |-> Undefined]
NoTick == 0
Untracked == -1

----------------------------------------------------------------------------
(* Bounds of the model *)

MaxTasks == 2           \* tasks ever created
MaxSessions == 2        \* sessions ever opened
MaxClockSteps == 1      \* clock advances of the store specification
MaxCompletions == 3     \* completeTask calls

MaxListedTasks == 2     \* tasks ever created, task manager specification
MaxTimerTasks == 1      \* tasks ever created, timer specification
MaxTimerSessions == 1   \* sessions ever opened, timer specification
MaxTimerNow == 400      \* last second of the clock, timer specification
MaxCompletedTasks == 5  \* tasks ever created, completion specification
MaxStaleTasks == 1      \* tasks ever created, stale tick specification
MaxStaleSessions == 1   \* sessions ever opened, stale tick specification
MaxLedgerTasks == 1     \* tasks ever created, ledger specification
MaxLedgerSessions == 2  \* sessions ever opened, ledger specification
MaxLedgerClockSteps == 1 \* clock advances of the ledger specification

(* Inputs *)
TimerDeltas == {200, 300}
TimerFormInputs == {[importance |-> 3, deadline |-> Undefined]}
TimerDurations == {5 * 60, 25 * 60, 50 * 60}
(* the presets the timer specification draws: within MaxTimerNow the       *)
(* 50-minute countdown cannot run out at any distortion level, as the      *)
(* 25-minute one at low levels                                             *)
TimerDurationInputs == {d \in TimerDurations : d <= 25 * 60}
ClockStep == 4 * 60 * 60 + 1      \* seconds per clock advance: just over the 4 hours of time-bender
MaxNow == MaxClockSteps * ClockStep
TaskIds == 1..MaxTasks
FormInputs == {[importance |-> 3, deadline |-> Undefined], [importance |-> 5, deadline |-> ClockStep]}
LevelInputs == {-10, 80, 110}
AchievementInputs == {"deadline-warrior"}
CompletionFormInputs == {[importance |-> 3, deadline |-> Undefined],
                         [importance |-> 3, deadline |-> 5 * 60]}
DistortionLevels == 0..100
LedgerDeltas == {4 * 60 * 60, 4 * 60 * 60 + 1}
LedgerLevels == {75, 76}
MaxLedgerNow == MaxLedgerClockSteps * (4 * 60 * 60 + 1)

----------------------------------------------------------------------------
(* Initial state: the store as created, the timer not yet rendered *)

Init ==
    /\ tasks = << >>
    /\ focusSessions = << >>
    /\ currentFocusState = "idle"
    /\ currentSession = NoSession
    /\ productivityStats = [totalTasksCompleted |-> 0, totalTimeSpent |-> 0,
                            longestStreak |-> 0, currentStreak |-> 0,
                            lastActiveDay |-> Undefined]
    /\ achievements = PREDEFINED_ACHIEVEMENTS
    /\ now = 0
    /\ nextId = 1
    /\ nextSessionId = 1
    /\ mounted = FALSE
    /\ taskId = NoTask
    /\ timeRemaining = 25 * 60 * Scale
    /\ initialTime = 25 * 60 * Scale
    /\ timerState = TIMER_IDLE
    /\ distortionLevel = 0
    /\ lastTickTime = Undefined
    /\ everCompleted = {}
    /\ procCount = << >>
    /\ runAwayCalls = 0
    /\ run = NoRun
    /\ pending = Untracked

----------------------------------------------------------------------------
(* The store of useTaskStore.ts.  Each operation is a function of the      *)
(* store state s (a record of the six store fields) and of its inputs; t   *)
(* is the value of new Date() during the call.                             *)

Store == [tasks |-> tasks, focusSessions |-> focusSessions,
          currentFocusState |-> currentFocusState, currentSession |-> currentSession,
          productivityStats |-> productivityStats, achievements |-> achievements]

SetStore(s) ==
    /\ tasks' = s.tasks
    /\ focusSessions' = s.focusSessions
    /\ currentFocusState' = s.currentFocusState
    /\ currentSession' = s.currentSession
    /\ productivityStats' = s.productivityStats
    /\ achievements' = s.achievements

updateAchievement(s, achievementId, t) ==
    [s EXCEPT !.achievements = Unlocked(s.achievements, achievementId, t)]

addTask(s, id, taskData, t) ==
    LET newTask == [status |-> "pending", timeSpent |-> 0, procrastinationLevel |-> 0,
                    importance |-> taskData.importance, deadline |-> taskData.deadline,
                    completedAt |-> Undefined, lastWorkedOn |-> Undefined]
        s1 == [s EXCEPT !.tasks = [i \in (DOMAIN s.tasks) \cup {id} |->
                                      IF i = id THEN newTask ELSE s.tasks[i]]]
    IN  IF ~s1.achievements["first-task"].isUnlocked
        THEN updateAchievement(s1, "first-task", t)
        ELSE s1

updateTask(s, id, taskUpdate) ==
    [s EXCEPT !.tasks = MapTask(s.tasks, id, taskUpdate)]

deleteTask(s, id) ==
    [s EXCEPT !.tasks = FilterTask(s.tasks, id)]

completeTask(s, id, t) ==
    LET updatedTasks == MapTask(s.tasks, id, [status |-> "completed", completedAt |-> t])
        completedCount ==
            Cardinality({i \in DOMAIN updatedTasks : updatedTasks[i].status = "completed"})
        s1 == IF completedCount >= 5 /\ ~s.achievements["five-tasks-completed"].isUnlocked
              THEN updateAchievement(s, "five-tasks-completed", t)
              ELSE s
    IN  [s1 EXCEPT !.tasks = updatedTasks,
                   !.productivityStats.totalTasksCompleted =
                        s.productivityStats.totalTasksCompleted + 1]

makeTaskRunAway(s, id, t) ==
    updateAchievement([s EXCEPT !.tasks = MapTask(s.tasks, id, [status |-> "running-away"])],
                      "procrastination-master", t)

startFocusSession(s, tid, sid, t) ==
    [s EXCEPT !.currentSession = [id |-> sid, taskId |-> tid, startTime |-> t,
                                  endTime |-> Undefined, duration |-> 0,
                                  distortionLevel |-> 0],
              !.currentFocusState = "focus"]

(* endFocusSession billing the duration field of the open session instead of *)
(* the time since startTime                                                *)
endFocusSessionStoredDuration(s, t) ==
    IF s.currentSession = NoSession THEN s
    ELSE
    LET cur == s.currentSession
        duration == cur.duration
        completedSession == [cur EXCEPT !.endTime = t, !.duration = duration]
        s1 == IF cur.taskId \in DOMAIN s.tasks
              THEN updateTask(s, cur.taskId,
                              [timeSpent |-> s.tasks[cur.taskId].timeSpent + duration,
                               lastWorkedOn |-> t])
              ELSE s
    IN  [s1 EXCEPT !.focusSessions = Append(s1.focusSessions, completedSession),
                   !.currentSession = NoSession,
                   !.currentFocusState = "idle",
                   !.productivityStats.totalTimeSpent =
                        s1.productivityStats.totalTimeSpent + duration]

(* endFocusSession granting time-bender from level 75 and from 4 hours on  *)
endFocusSessionFromThresholds(s, t) ==
    IF s.currentSession = NoSession THEN s
    ELSE
    LET cur == s.currentSession
        endTime == t
        duration == endTime - cur.startTime
        completedSession == [cur EXCEPT !.endTime = endTime, !.duration = duration]
        s1 == IF cur.taskId \in DOMAIN s.tasks
              THEN updateTask(s, cur.taskId,
                              [timeSpent |-> s.tasks[cur.taskId].timeSpent + duration,
                               lastWorkedOn |-> endTime])
              ELSE s
        s2 == [s1 EXCEPT !.focusSessions = Append(s1.focusSessions, completedSession),
                         !.currentSession = NoSession,
                         !.currentFocusState = "idle",
                         !.productivityStats.totalTimeSpent =
                              s1.productivityStats.totalTimeSpent + duration]
    IN  IF cur.distortionLevel >= 75 /\ duration >= 14400
        THEN updateAchievement(s2, "time-bender", t)
        ELSE s2

(* endFocusSession without the early return: with no session open it     *)
(* still files an (empty) closed session                                   *)
endFocusSessionNoEarlyReturn(s, t) ==
    LET cur == IF s.currentSession = NoSession
               THEN [id |-> 0, taskId |-> NoTask, startTime |-> t, endTime |-> Undefined,
                     duration |-> 0, distortionLevel |-> 0]
               ELSE s.currentSession
        endTime == t
        duration == endTime - cur.startTime
        completedSession == [cur EXCEPT !.endTime = endTime, !.duration = duration]
        s1 == IF cur.taskId \in DOMAIN s.tasks
              THEN updateTask(s, cur.taskId,
                              [timeSpent |-> s.tasks[cur.taskId].timeSpent + duration,
                               lastWorkedOn |-> endTime])
              ELSE s
        s2 == [s1 EXCEPT !.focusSessions = Append(s1.focusSessions, completedSession),
                         !.currentSession = NoSession,
                         !.currentFocusState = "idle",
                         !.productivityStats.totalTimeSpent =
                              s1.productivityStats.totalTimeSpent + duration]
    IN  IF cur.distortionLevel > 75 /\ duration > 14400
        THEN updateAchievement(s2, "time-bender", t)
        ELSE s2

endFocusSession(s, t) ==
    IF s.currentSession = NoSession THEN s
    ELSE
    LET cur == s.currentSession
        endTime == t
        duration == endTime - cur.startTime
        completedSession == [cur EXCEPT !.endTime = endTime, !.duration = duration]
        s1 == IF cur.taskId \in DOMAIN s.tasks
              THEN updateTask(s, cur.taskId,
                              [timeSpent |-> s.tasks[cur.taskId].timeSpent + duration,
                               lastWorkedOn |-> endTime])
              ELSE s
        s2 == [s1 EXCEPT !.focusSessions = Append(s1.focusSessions, completedSession),
                         !.currentSession = NoSession,
                         !.currentFocusState = "idle",
                         !.productivityStats.totalTimeSpent =
                              s1.productivityStats.totalTimeSpent + duration]
    IN  IF cur.distortionLevel > 75 /\ duration > 14400
        THEN updateAchievement(s2, "time-bender", t)
        ELSE s2

setDistortionLevel(s, level) ==
    IF s.currentSession # NoSession
    THEN [s EXCEPT !.currentSession.distortionLevel = level,
                   !.currentFocusState = IF level > 50 THEN "distorted" ELSE "focus"]
    ELSE s

setFocusState(s, state) == [s EXCEPT !.currentFocusState = state]

(* handleProcrastinate with a step of 25 instead of 20 *)
handleProcrastinateStep25(s, id, t) ==
    IF id \notin DOMAIN s.tasks THEN s
    ELSE
    LET newProcrastinationLevel == Min(100, s.tasks[id].procrastinationLevel + 25)
    IN  IF newProcrastinationLevel >= 100
        THEN makeTaskRunAway(s, id, t)
        ELSE updateTask(s, id, [procrastinationLevel |-> newProcrastinationLevel])

(* handleProcrastinate of TaskManager.tsx *)
handleProcrastinate(s, id, t) ==
    IF id \notin DOMAIN s.tasks THEN s
    ELSE
    LET newProcrastinationLevel == Min(100, s.tasks[id].procrastinationLevel + 20)
    IN  IF newProcrastinationLevel >= 100
        THEN makeTaskRunAway(s, id, t)
        ELSE updateTask(s, id, [procrastinationLevel |-> newProcrastinationLevel])

----------------------------------------------------------------------------
(* Store operations called directly, with any arguments *)

KeepTimer == UNCHANGED timerVars /\ UNCHANGED run /\ UNCHANGED pending

AddTask(importance, deadline) ==
    /\ SetStore(addTask(Store, nextId, [importance |-> importance, deadline |-> deadline], now))
    /\ nextId' = nextId + 1
    /\ procCount' = [i \in (DOMAIN procCount) \cup {nextId} |->
                        IF i = nextId THEN 0 ELSE procCount[i]]
    /\ UNCHANGED <<now, nextSessionId, everCompleted, runAwayCalls>>
    /\ KeepTimer

(* updateTask with the patch of the edit form (handleSubmit) *)
UpdateTask(id, importance, deadline) ==
    /\ SetStore(updateTask(Store, id, [importance |-> importance, deadline |-> deadline]))
    /\ UNCHANGED <<envVars, everCompleted, procCount, runAwayCalls>>
    /\ KeepTimer

DeleteTask(id) ==
    /\ SetStore(deleteTask(Store, id))
    /\ procCount' = [i \in (DOMAIN procCount) \ {id} |-> procCount[i]]
    /\ UNCHANGED <<envVars, everCompleted, runAwayCalls>>
    /\ KeepTimer

CompleteTask(id) ==
    /\ SetStore(completeTask(Store, id, now))
    /\ everCompleted' =
          IF id \in DOMAIN tasks /\ tasks[id].status # "completed"
          THEN everCompleted \cup {id} ELSE everCompleted
    /\ procCount' = [i \in DOMAIN procCount |-> IF i = id THEN -1 ELSE procCount[i]]
    /\ UNCHANGED <<envVars, runAwayCalls>>
    /\ KeepTimer

MakeTaskRunAway(id) ==
    /\ SetStore(makeTaskRunAway(Store, id, now))
    /\ procCount' = [i \in DOMAIN procCount |-> IF i = id THEN -1 ELSE procCount[i]]
    /\ runAwayCalls' = Min(runAwayCalls + 1, 2)
    /\ UNCHANGED <<envVars, everCompleted>>
    /\ KeepTimer

HandleProcrastinate(id) ==
    /\ SetStore(handleProcrastinate(Store, id, now))
    /\ procCount' = [i \in DOMAIN procCount |->
                        IF i = id /\ procCount[i] >= 0
                        THEN Min(procCount[i] + 1, 6) ELSE procCount[i]]
    /\ runAwayCalls' =
          IF id \in DOMAIN tasks /\ Min(100, tasks[id].procrastinationLevel + 20) >= 100
          THEN Min(runAwayCalls + 1, 2) ELSE runAwayCalls
    /\ UNCHANGED <<envVars, everCompleted>>
    /\ KeepTimer

StartFocusSession(tid) ==
    /\ SetStore(startFocusSession(Store, tid, nextSessionId, now))
    /\ nextSessionId' = nextSessionId + 1
    /\ UNCHANGED <<now, nextId, everCompleted, procCount, runAwayCalls>>
    /\ KeepTimer

EndFocusSession ==
    /\ SetStore(endFocusSession(Store, now))
    /\ UNCHANGED <<envVars, everCompleted, procCount, runAwayCalls>>
    /\ KeepTimer

SetDistortionLevel(level) ==
    /\ SetStore(setDistortionLevel(Store, level))
    /\ UNCHANGED <<envVars, everCompleted, procCount, runAwayCalls>>
    /\ KeepTimer

UpdateAchievement(achievementId) ==
    /\ SetStore(updateAchievement(Store, achievementId, now))
    /\ UNCHANGED <<envVars, everCompleted, procCount, runAwayCalls>>
    /\ KeepTimer

(* The wall clock moves on by dt seconds *)
Advance(dt) ==
    /\ now' = now + dt
    /\ UNCHANGED <<storeVars, nextId, nextSessionId, timerVars, histVars, pending>>

----------------------------------------------------------------------------
(* The FocusTimer component (src/unnamed/part_002) and the page that shows *)
(* it (src/src/app/page.tsx)                                               *)

(* timeMultiplier with the fourth segment rising by 1 per 10 levels instead *)
(* of 1 per 7.5                                                            *)
timeMultiplierSlopeTen(state, level) ==
    IF state = TIMER_DISTORTED
    THEN IF level < 30 THEN 30 + level
         ELSE IF level < 60 THEN 60 + 2 * (level - 30)
         ELSE IF level < 80 THEN 120 + 3 * (level - 60)
         ELSE IF level < 95 THEN 180 + 6 * (level - 80)
         ELSE -60
    ELSE 60

(* timeMultiplier starting from the curve's value at level 0 instead of 1  *)
(* when the timer is not distorted                                         *)
timeMultiplierCurveAtZero(state, level) ==
    IF state = TIMER_DISTORTED
    THEN IF level < 30 THEN 30 + level
         ELSE IF level < 60 THEN 60 + 2 * (level - 30)
         ELSE IF level < 80 THEN 120 + 3 * (level - 60)
         ELSE IF level < 95 THEN 180 + 8 * (level - 80)
         ELSE -60
    ELSE 30

(* timeMultiplier of the timer effect, in sixtieths *)
timeMultiplier(state, level) ==
    IF state = TIMER_DISTORTED
    THEN IF level < 30 THEN 30 + level
         ELSE IF level < 60 THEN 60 + 2 * (level - 30)
         ELSE IF level < 80 THEN 120 + 3 * (level - 60)
         ELSE IF level < 95 THEN 180 + 8 * (level - 80)
         ELSE -60
    ELSE 60

(* newValue taking a fixed second off per call instead of the elapsed time *)
newValuePerCall(prev, elapsed, multiplier) == Max(0, prev - multiplier)

(* newValue without the lower clamp at 0 *)
newValueUnclamped(prev, elapsed, multiplier) == prev - elapsed * multiplier

(* The updater passed to setTimeRemaining: Math.max(0, prev - elapsed * timeMultiplier) *)
newValue(prev, elapsed, multiplier) == Max(0, prev - elapsed * multiplier)

(* The focus state the timer reports for a timer state *)
focusStateOf(state) ==
    IF state = TIMER_RUNNING THEN "focus"
    ELSE IF state = TIMER_DISTORTED THEN "distorted"
    ELSE IF state = TIMER_COMPLETED THEN "break"
    ELSE "idle"

(* The two effects that report to the store after a render: the distortion *)
(* level when it changed, then the focus state when the timer state changed *)
effects(s, oldLevel, newLevel, oldState, newState) ==
    LET s1 == IF newLevel # oldLevel THEN setDistortionLevel(s, newLevel) ELSE s
    IN  IF newState # oldState THEN setFocusState(s1, focusStateOf(newState)) ELSE s1

(* What a handler of the timer leaves alone.  When it stops a timer that   *)
(* was running or distorted, the interval is cleared by the cleanup of the *)
(* timer effect: its callback, holding the multiplier of the render that   *)
(* set the interval, may have been scheduled already and run once more     *)
KeepTasks ==
    /\ UNCHANGED <<nextId, everCompleted, procCount, runAwayCalls>>
    /\ pending' = IF pending = Untracked THEN Untracked
                  ELSE IF /\ mounted /\ timerState \in {TIMER_RUNNING, TIMER_DISTORTED}
                          /\ mounted' /\ timerState' \notin {TIMER_RUNNING, TIMER_DISTORTED}
                  THEN timeMultiplier(timerState, distortionLevel)
                  ELSE NoTick

(* The focus tab is shown: FocusTimer mounts with its initial state and all *)
(* its effects run once                                                    *)
Mount(selected) ==
    /\ ~mounted
    /\ mounted' = TRUE
    /\ taskId' = selected
    /\ timeRemaining' = 25 * 60 * Scale
    /\ initialTime' = 25 * 60 * Scale
    /\ timerState' = TIMER_IDLE
    /\ distortionLevel' = 0
    /\ lastTickTime' = Undefined
    /\ SetStore(setFocusState(setDistortionLevel(Store, 0), "idle"))
    /\ run' = NoRun
    /\ UNCHANGED <<now, nextSessionId>>
    /\ KeepTasks

(* handleTaskSelect: a task of the landscape is clicked *)
HandleTaskSelect(id) ==
    /\ id \in DOMAIN tasks
    /\ Mount(id)

(* setActiveTab("focus") *)
ShowFocusTab == Mount(taskId)

(* setActiveTab to another tab: FocusTimer unmounts, its state is dropped *)
LeaveFocusTab ==
    /\ mounted
    /\ mounted' = FALSE
    /\ timeRemaining' = 25 * 60 * Scale
    /\ initialTime' = 25 * 60 * Scale
    /\ timerState' = TIMER_IDLE
    /\ distortionLevel' = 0
    /\ lastTickTime' = Undefined
    /\ run' = NoRun
    /\ UNCHANGED <<storeVars, envVars, taskId>>
    /\ KeepTasks

SetTimerDuration(duration) ==
    /\ mounted
    /\ timerState = TIMER_IDLE
    /\ initialTime' = duration * Scale
    /\ timeRemaining' = duration * Scale
    /\ UNCHANGED <<storeVars, envVars, mounted, taskId, timerState, distortionLevel,
                   lastTickTime, run>>
    /\ KeepTasks

StartTimer ==
    /\ mounted
    /\ timerState = TIMER_IDLE
    /\ timerState' = TIMER_RUNNING
    /\ lastTickTime' = now
    /\ LET s1 == IF taskId # NoTask
                 THEN startFocusSession(Store, taskId, nextSessionId, now)
                 ELSE Store
       IN  SetStore(effects(s1, distortionLevel, distortionLevel, timerState, TIMER_RUNNING))
    /\ nextSessionId' = IF taskId # NoTask THEN nextSessionId + 1 ELSE nextSessionId
    /\ run' = [plain |-> TRUE, ticked |-> 0, fired |-> 0, resumed |-> Undefined]
    /\ UNCHANGED <<now, mounted, taskId, timeRemaining, initialTime, distortionLevel>>
    /\ KeepTasks

(* pauseTimer without lastTickTime.current = null *)
PauseTimerKeepsLastTick ==
    /\ mounted
    /\ timerState \in {TIMER_RUNNING, TIMER_DISTORTED}
    /\ timerState' = TIMER_PAUSED
    /\ SetStore(effects(Store, distortionLevel, distortionLevel, timerState, TIMER_PAUSED))
    /\ run' = [run EXCEPT !.plain = FALSE, !.ticked = 0, !.resumed = Undefined]
    /\ UNCHANGED <<envVars, mounted, taskId, timeRemaining, initialTime, distortionLevel,
                   lastTickTime>>
    /\ KeepTasks

PauseTimer ==
    /\ mounted
    /\ timerState \in {TIMER_RUNNING, TIMER_DISTORTED}
    /\ timerState' = TIMER_PAUSED
    /\ lastTickTime' = Undefined
    /\ SetStore(effects(Store, distortionLevel, distortionLevel, timerState, TIMER_PAUSED))
    /\ run' = [run EXCEPT !.plain = FALSE, !.ticked = 0, !.resumed = Undefined]
    /\ UNCHANGED <<envVars, mounted, taskId, timeRemaining, initialTime, distortionLevel>>
    /\ KeepTasks

(* resumeTimer without lastTickTime.current = Date.now() *)
ResumeTimerKeepsLastTick ==
    /\ mounted
    /\ timerState = TIMER_PAUSED
    /\ timerState' = TIMER_RUNNING
    /\ SetStore(effects(Store, distortionLevel, distortionLevel, timerState, TIMER_RUNNING))
    /\ run' = [run EXCEPT !.resumed = IF pending = Untracked THEN Undefined ELSE now]
    /\ UNCHANGED <<envVars, mounted, taskId, timeRemaining, initialTime, distortionLevel,
                   lastTickTime>>
    /\ KeepTasks

ResumeTimer ==
    /\ mounted
    /\ timerState = TIMER_PAUSED
    /\ timerState' = TIMER_RUNNING
    /\ lastTickTime' = now
    /\ SetStore(effects(Store, distortionLevel, distortionLevel, timerState, TIMER_RUNNING))
    /\ run' = [run EXCEPT !.resumed = IF pending = Untracked THEN Undefined ELSE now]
    /\ UNCHANGED <<envVars, mounted, taskId, timeRemaining, initialTime, distortionLevel>>
    /\ KeepTasks

(* resetTimer without its endFocusSession() call *)
ResetTimerKeepsSession ==
    /\ mounted
    /\ timerState \in {TIMER_RUNNING, TIMER_DISTORTED, TIMER_COMPLETED}
    /\ timerState' = TIMER_IDLE
    /\ timeRemaining' = initialTime
    /\ distortionLevel' = 0
    /\ lastTickTime' = Undefined
    /\ SetStore(effects(Store, distortionLevel, 0, timerState, TIMER_IDLE))
    /\ run' = NoRun
    /\ UNCHANGED <<envVars, mounted, taskId, initialTime>>
    /\ KeepTasks

ResetTimer ==
    /\ mounted
    /\ timerState \in {TIMER_RUNNING, TIMER_DISTORTED, TIMER_COMPLETED}
    /\ timerState' = TIMER_IDLE
    /\ timeRemaining' = initialTime
    /\ distortionLevel' = 0
    /\ lastTickTime' = Undefined
    /\ SetStore(effects(endFocusSession(Store, now), distortionLevel, 0, timerState, TIMER_IDLE))
    /\ run' = NoRun
    /\ UNCHANGED <<envVars, mounted, taskId, initialTime>>
    /\ KeepTasks

(* toggleTimeDistortion entering Distorted from any state but Distorted *)
ToggleTimeDistortionFromAny ==
    /\ mounted
    /\ timerState \in {TIMER_RUNNING, TIMER_DISTORTED, TIMER_PAUSED}
    /\ timerState' = IF timerState # TIMER_DISTORTED THEN TIMER_DISTORTED ELSE TIMER_RUNNING
    /\ SetStore(effects(Store, distortionLevel, distortionLevel, timerState, timerState'))
    /\ run' = [run EXCEPT !.plain = FALSE, !.ticked = 0]
    /\ UNCHANGED <<envVars, mounted, taskId, timeRemaining, initialTime, distortionLevel,
                   lastTickTime>>
    /\ KeepTasks

ToggleTimeDistortion ==
    /\ mounted
    /\ timerState \in {TIMER_RUNNING, TIMER_DISTORTED}
    /\ timerState' = IF timerState = TIMER_RUNNING THEN TIMER_DISTORTED ELSE TIMER_RUNNING
    /\ SetStore(effects(Store, distortionLevel, distortionLevel, timerState, timerState'))
    /\ run' = [run EXCEPT !.plain = FALSE, !.ticked = 0]
    /\ UNCHANGED <<envVars, mounted, taskId, timeRemaining, initialTime, distortionLevel,
                   lastTickTime>>
    /\ KeepTasks

IncreaseDistortion ==
    /\ mounted
    /\ timerState = TIMER_DISTORTED
    /\ distortionLevel' = Min(100, distortionLevel + 10)
    /\ SetStore(effects(Store, distortionLevel, distortionLevel', timerState, timerState))
    /\ UNCHANGED <<envVars, mounted, taskId, timeRemaining, initialTime, timerState,
                   lastTickTime, run>>
    /\ KeepTasks

DecreaseDistortion ==
    /\ mounted
    /\ timerState = TIMER_DISTORTED
    /\ distortionLevel' = Max(0, distortionLevel - 10)
    /\ SetStore(effects(Store, distortionLevel, distortionLevel', timerState, timerState))
    /\ UNCHANGED <<envVars, mounted, taskId, timeRemaining, initialTime, timerState,
                   lastTickTime, run>>
    /\ KeepTasks

(* The callback without its endFocusSession() call on completion *)
TickKeepsSession(dt) ==
    /\ mounted
    /\ timerState \in {TIMER_RUNNING, TIMER_DISTORTED}
    /\ now' = now + dt
    /\ IF lastTickTime = Undefined
       THEN /\ lastTickTime' = now'
            /\ UNCHANGED <<storeVars, timeRemaining, timerState, run>>
       ELSE LET elapsed == now' - lastTickTime
                prev == timeRemaining
                value == newValue(prev, elapsed, timeMultiplier(timerState, distortionLevel))
                completes == value <= 0 /\ prev > 0
            IN  /\ lastTickTime' = now'
                /\ timeRemaining' = value
                /\ timerState' = IF completes THEN TIMER_COMPLETED ELSE timerState
                /\ SetStore(IF completes
                            THEN effects(Store, distortionLevel,
                                         distortionLevel, timerState, TIMER_COMPLETED)
                            ELSE Store)
                /\ run' = [plain |-> run.plain,
                           ticked |-> IF run.plain THEN run.ticked + elapsed ELSE 0,
                           fired |-> IF completes THEN run.fired + 1 ELSE run.fired,
                           resumed |-> Undefined]
    /\ UNCHANGED <<nextSessionId, mounted, taskId, initialTime, distortionLevel>>
    /\ KeepTasks

(* The setInterval callback of the timer effect.  The interval fires every *)
(* 50 ms while the timer is running or distorted, so at the grain of whole *)
(* seconds no time passes on such a timer without a tick: dt seconds pass  *)
(* and the callback runs.                                                  *)
Tick(dt) ==
    /\ mounted
    /\ timerState \in {TIMER_RUNNING, TIMER_DISTORTED}
    /\ now' = now + dt
    /\ IF lastTickTime = Undefined
       THEN /\ lastTickTime' = now'
            /\ UNCHANGED <<storeVars, timeRemaining, timerState, run>>
       ELSE LET elapsed == now' - lastTickTime
                prev == timeRemaining
                value == newValue(prev, elapsed, timeMultiplier(timerState, distortionLevel))
                completes == value <= 0 /\ prev > 0
            IN  /\ lastTickTime' = now'
                /\ timeRemaining' = value
                /\ timerState' = IF completes THEN TIMER_COMPLETED ELSE timerState
                /\ SetStore(IF completes
                            THEN effects(endFocusSession(Store, now'), distortionLevel,
                                         distortionLevel, timerState, TIMER_COMPLETED)
                            ELSE Store)
                /\ run' = [plain |-> run.plain,
                           ticked |-> IF run.plain THEN run.ticked + elapsed ELSE 0,
                           fired |-> IF completes THEN run.fired + 1 ELSE run.fired,
                           resumed |-> Undefined]
    /\ UNCHANGED <<nextSessionId, mounted, taskId, initialTime, distortionLevel>>
    /\ KeepTasks

(* The callback of a cleared interval runs once more, after the handler    *)
(* or the completion that stopped the timer                                *)
StaleTick ==
    /\ mounted
    /\ pending \notin {NoTick, Untracked}
    /\ IF lastTickTime = Undefined
       THEN /\ lastTickTime' = now
            /\ UNCHANGED <<storeVars, timeRemaining, timerState, run>>
       ELSE LET elapsed == now - lastTickTime
                prev == timeRemaining
                value == newValue(prev, elapsed, pending)
                completes == value <= 0 /\ prev > 0
            IN  /\ lastTickTime' = now
                /\ timeRemaining' = value
                /\ timerState' = IF completes THEN TIMER_COMPLETED ELSE timerState
                /\ SetStore(IF completes
                            THEN effects(endFocusSession(Store, now), distortionLevel,
                                         distortionLevel, timerState, TIMER_COMPLETED)
                            ELSE Store)
                /\ run' = [run EXCEPT !.fired = IF completes THEN @ + 1 ELSE @]
    /\ pending' = NoTick
    /\ UNCHANGED <<envVars, mounted, taskId, initialTime, distortionLevel,
                   everCompleted, procCount, runAwayCalls>>

(* The interval of the timer effect is set *)
Ticking == mounted /\ timerState \in {TIMER_RUNNING, TIMER_DISTORTED}

----------------------------------------------------------------------------
(* The task list driven through the store's task operations and the        *)
(* procrastinate handler                                                   *)

Next ==
    \/ nextId <= MaxTasks /\ \E f \in FormInputs : AddTask(f.importance, f.deadline)
    \/ \E id \in TaskIds, f \in FormInputs : UpdateTask(id, f.importance, f.deadline)
    \/ \E id \in TaskIds : DeleteTask(id)
    \/ productivityStats.totalTasksCompleted < MaxCompletions /\ \E id \in TaskIds : CompleteTask(id)
    \/ \E id \in TaskIds : MakeTaskRunAway(id)
    \/ \E id \in TaskIds : HandleProcrastinate(id)
    \/ \E a \in AchievementInputs : UpdateAchievement(a)
    \/ now + ClockStep <= MaxNow /\ Advance(ClockStep)

Spec == Init /\ [][Next]_vars

(* The TaskManager component: a task is added or edited through the form,  *)
(* Complete and Procrastinate are offered on pending and in-progress tasks, *)
(* Delete on every task.  The edit form may hold any task created so far.  *)

PendingTasks == {id \in DOMAIN tasks : tasks[id].status \in {"pending", "in-progress"}}

NextTaskManager ==
    \/ nextId <= MaxListedTasks /\ \E f \in FormInputs : AddTask(f.importance, f.deadline)
    \/ \E id \in 1..(nextId - 1), f \in FormInputs : UpdateTask(id, f.importance, f.deadline)
    \/ \E id \in DOMAIN tasks : DeleteTask(id)
    \/ \E id \in PendingTasks : CompleteTask(id)
    \/ \E id \in PendingTasks : HandleProcrastinate(id)
    \/ now + ClockStep <= MaxNow /\ Advance(ClockStep)

SpecTaskManager == Init /\ [][NextTaskManager]_vars

(* The session ledger driven through the store's session operations *)

NextSession ==
    \/ nextId <= MaxTasks /\ \E f \in FormInputs : AddTask(f.importance, f.deadline)
    \/ \E id \in TaskIds : DeleteTask(id)
    \/ nextSessionId <= MaxSessions /\ \E tid \in TaskIds : StartFocusSession(tid)
    \/ EndFocusSession
    \/ \E level \in LevelInputs : SetDistortionLevel(level)
    \/ now + ClockStep <= MaxNow /\ Advance(ClockStep)

SpecSession == Init /\ [][NextSession]_vars

(* The task list of TaskManager with tasks added, completed once each and  *)
(* deleted, some with a deadline five minutes ahead                        *)

NextCompletion ==
    \/ nextId <= MaxCompletedTasks
          /\ \E f \in CompletionFormInputs : AddTask(f.importance, f.deadline)
    \/ \E id \in PendingTasks : CompleteTask(id)
    \/ \E id \in DOMAIN tasks : DeleteTask(id)

SpecCompletion == Init /\ [][NextCompletion]_vars

(* The session ledger around the thresholds of time-bender: sessions of    *)
(* one task, distortion levels 75 and 76, clock advances of 4 hours        *)
(* exactly and of 4 hours and a second                                     *)

NextLedger ==
    \/ nextId <= MaxLedgerTasks /\ \E f \in TimerFormInputs : AddTask(f.importance, f.deadline)
    \/ nextSessionId <= MaxLedgerSessions /\ \E tid \in 1..MaxLedgerTasks : StartFocusSession(tid)
    \/ EndFocusSession
    \/ \E level \in LedgerLevels : SetDistortionLevel(level)
    \/ \E dt \in LedgerDeltas : now + dt <= MaxLedgerNow /\ Advance(dt)

SpecLedger == Init /\ [][NextLedger]_vars

(* The page: a task is added on the tasks tab and selected on the          *)
(* landscape tab, the timer runs on the focus tab                          *)

NextTimer ==
    \/ ~mounted /\ nextId <= MaxTimerTasks /\ \E f \in TimerFormInputs : AddTask(f.importance, f.deadline)
    \/ \E id \in DOMAIN tasks : HandleTaskSelect(id)
    \/ ShowFocusTab
    \/ LeaveFocusTab
    \/ \E duration \in TimerDurationInputs : SetTimerDuration(duration)
    \/ nextSessionId <= MaxTimerSessions /\ StartTimer
    \/ PauseTimer
    \/ ResumeTimer
    \/ ResetTimer
    \/ ToggleTimeDistortion
    \/ IncreaseDistortion
    \/ DecreaseDistortion
    \/ \E dt \in TimerDeltas : now + dt <= MaxTimerNow /\ Tick(dt)
    \/ \E dt \in TimerDeltas : now + dt <= MaxTimerNow /\ ~Ticking /\ Advance(dt)

SpecTimer == Init /\ [][NextTimer]_vars

(* The timer of a selected task, kept on the focus tab, with the callback  *)
(* of a cleared interval running late                                      *)

NextStale ==
    \/ ~mounted /\ nextId <= MaxStaleTasks /\ \E f \in TimerFormInputs : AddTask(f.importance, f.deadline)
    \/ \E id \in DOMAIN tasks : HandleTaskSelect(id)
    \/ \E duration \in TimerDurationInputs : SetTimerDuration(duration)
    \/ nextSessionId <= MaxStaleSessions /\ StartTimer
    \/ PauseTimer
    \/ ResumeTimer
    \/ ResetTimer
    \/ ToggleTimeDistortion
    \/ IncreaseDistortion
    \/ DecreaseDistortion
    \/ \E dt \in TimerDeltas : now + dt <= MaxTimerNow /\ Tick(dt)
    \/ \E dt \in TimerDeltas : now + dt <= MaxTimerNow /\ ~Ticking /\ Advance(dt)
    \/ StaleTick

(* The initial state, with cleared intervals and resumes followed *)
InitStale ==
    /\ tasks = << >>
    /\ focusSessions = << >>
    /\ currentFocusState = "idle"
    /\ currentSession = NoSession
    /\ productivityStats = [totalTasksCompleted |-> 0, totalTimeSpent |-> 0,
                            longestStreak |-> 0, currentStreak |-> 0,
                            lastActiveDay |-> Undefined]
    /\ achievements = PREDEFINED_ACHIEVEMENTS
    /\ now = 0
    /\ nextId = 1
    /\ nextSessionId = 1
    /\ mounted = FALSE
    /\ taskId = NoTask
    /\ timeRemaining = 25 * 60 * Scale
    /\ initialTime = 25 * 60 * Scale
    /\ timerState = TIMER_IDLE
    /\ distortionLevel = 0
    /\ lastTickTime = Undefined
    /\ everCompleted = {}
    /\ procCount = << >>
    /\ runAwayCalls = 0
    /\ run = NoRun
    /\ pending = NoTick

SpecStale == InitStale /\ [][NextStale]_vars

(* The distortion curve on its whole domain: a timer with no task selected, *)
(* set to 5 or 25 minutes and started at second 0, Running or switched to  *)
(* Distorted, at any integer level of 0..100 (the buttons of the component *)
(* reach the multiples of 10), and the interval callback                   *)

InitMultiplier ==
    /\ tasks = << >>
    /\ focusSessions = << >>
    /\ currentSession = NoSession
    /\ productivityStats = [totalTasksCompleted |-> 0, totalTimeSpent |-> 0,
                            longestStreak |-> 0, currentStreak |-> 0,
                            lastActiveDay |-> Undefined]
    /\ achievements = PREDEFINED_ACHIEVEMENTS
    /\ now = 0
    /\ nextId = 1
    /\ nextSessionId = 1
    /\ mounted = TRUE
    /\ taskId = NoTask
    /\ initialTime \in {d * Scale : d \in TimerDurationInputs}
    /\ timeRemaining = initialTime
    /\ timerState \in {TIMER_RUNNING, TIMER_DISTORTED}
    /\ distortionLevel \in DistortionLevels
    /\ lastTickTime = 0
    /\ everCompleted = {}
    /\ procCount = << >>
    /\ runAwayCalls = 0
    /\ run = NoRun
    /\ pending = Untracked
    /\ currentFocusState = focusStateOf(timerState)

NextMultiplier == \E dt \in TimerDeltas : now + dt <= MaxTimerNow /\ Tick(dt)

SpecMultiplier == InitMultiplier /\ [][NextMultiplier]_vars

----------------------------------------------------------------------------
(* Properties *)

ProcrastinationMaster == achievements["procrastination-master"]

(* C1: after any sequence of store operations totalTasksCompleted equals    *)
(* the number of distinct tasks that made a first transition to completed. *)
C1_CompletedCountsFirstCompletions ==
    productivityStats.totalTasksCompleted = Cardinality(everCompleted)

(* C2: once a task is completed or running-away, no operation changes its  *)
(* status again.                                                           *)
C2_TerminalStatusIsKept ==
    [][\A id \in (DOMAIN tasks) \cap (DOMAIN tasks') :
          tasks[id].status \in {"completed", "running-away"}
             => tasks'[id].status = tasks[id].status]_vars

(* C3: unlockedAt is set exactly once: a later unlock of an unlocked        *)
(* achievement leaves isUnlocked true and unlockedAt as first set.         *)
C3_UnlockedAtIsSetOnce ==
    [][\A a \in AchievementIds :
          achievements[a].isUnlocked => achievements'[a] = achievements[a]]_vars

(* C4: timeRemaining never exceeds initialTime.                            *)
C4_RemainingWithinInitialTime == timeRemaining <= initialTime

(* C5: a countdown of duration D kept running undistorted has remaining    *)
(* D minus the ticked time while that is positive; once the ticked time    *)
(* reaches D, remaining is exactly 0, the timer is completed, the          *)
(* completion event has fired exactly once and has closed the session; it  *)
(* never fires twice.                                                      *)
C5_CountdownCompletesExactlyOnce ==
    /\ run.fired <= 1
    /\ run.plain =>
          IF run.ticked * Scale >= initialTime
          THEN /\ timeRemaining = 0
               /\ timerState = TIMER_COMPLETED
               /\ run.fired = 1
               /\ currentSession = NoSession
          ELSE /\ timeRemaining = initialTime - run.ticked * Scale
               /\ timerState = TIMER_RUNNING
               /\ run.fired = 0

C5_Witness ==
    /\ run.plain /\ run.fired = 1 /\ run.ticked * Scale > initialTime
    /\ timeRemaining = 0 /\ timerState = TIMER_COMPLETED

(* C6: a tick while distorted at level 95..100 increases remaining by the  *)
(* elapsed time, bounded at the initial duration, never decreases it and   *)
(* never completes the timer.                                              *)
C6_ReverseTickBoundedAtInitialTime ==
    [][(Ticking /\ timerState = TIMER_DISTORTED /\ distortionLevel >= 95
          /\ lastTickTime # Undefined /\ now' # now)
        => /\ timeRemaining' =
                 Min(initialTime, timeRemaining + (now' - lastTickTime) * Scale)
           /\ timeRemaining' >= timeRemaining
           /\ timerState' = TIMER_DISTORTED]_vars

(* C7: on a task that has only been procrastinated, calls one to four      *)
(* leave it pending at level 20, 40, 60, 80, the fifth makes it run away   *)
(* and unlocks procrastination-master, which is locked as long as no task  *)
(* has run away.                                                           *)
C7_FifthProcrastinateRunsAway ==
    /\ \A id \in DOMAIN tasks :
          procCount[id] >= 0 =>
             /\ procCount[id] <= 4 =>
                   /\ tasks[id].status = "pending"
                   /\ tasks[id].procrastinationLevel = 20 * procCount[id]
             /\ procCount[id] >= 5 =>
                   /\ tasks[id].status = "running-away"
                   /\ ProcrastinationMaster.isUnlocked
    /\ runAwayCalls = 0 => ~ProcrastinationMaster.isUnlocked

C7_Witness ==
    \E id \in DOMAIN tasks :
        /\ procCount[id] = 5
        /\ tasks[id].status = "running-away"
        /\ tasks[id].procrastinationLevel = 80
        /\ ProcrastinationMaster.isUnlocked

(* C8: procrastinate on a task that is already running-away leaves the     *)
(* whole store unchanged.                                                  *)
C8_ProcrastinateOnRunawayIsNoOp ==
    [][\A id \in DOMAIN tasks :
          (tasks[id].status = "running-away" /\ HandleProcrastinate(id))
             => UNCHANGED storeVars]_vars

(* C9: startFocusSession while a session is active leaves currentSession   *)
(* unchanged; with no session active it opens one with startTime = now and *)
(* distortionLevel = 0.                                                    *)
C9_StartWhileActiveIsNoOp ==
    [][\A tid \in TaskIds :
          StartFocusSession(tid) =>
             IF currentSession # NoSession
             THEN currentSession' = currentSession
             ELSE /\ currentSession'.taskId = tid
                  /\ currentSession'.startTime = now
                  /\ currentSession'.distortionLevel = 0]_vars

(* C10: closing the active session bills duration = now - startTime,       *)
(* whatever the timer did meanwhile: the duration is added to the owning   *)
(* task's timeSpent and to totalTimeSpent, the closed session is appended  *)
(* once to focusSessions and currentSession is cleared.                    *)
C10_SessionBilledInRealTime ==
    [][(currentSession # NoSession /\ currentSession' = NoSession)
        => LET duration == now' - currentSession.startTime
               owner == currentSession.taskId
           IN  /\ focusSessions' =
                     Append(focusSessions,
                            [currentSession EXCEPT !.endTime = now', !.duration = duration])
               /\ productivityStats'.totalTimeSpent =
                     productivityStats.totalTimeSpent + duration
               /\ owner \in DOMAIN tasks =>
                     tasks'[owner].timeSpent = tasks[owner].timeSpent + duration]_vars

C10_Witness ==
    /\ currentSession = NoSession
    /\ Len(focusSessions) = 1
    /\ focusSessions[1].distortionLevel >= 30
    /\ focusSessions[1].duration = 400
    /\ timeRemaining = 0
    /\ focusSessions[1].taskId \in DOMAIN tasks
    /\ tasks[focusSessions[1].taskId].timeSpent = 400
    /\ productivityStats.totalTimeSpent = 400

(* C11: endFocusSession called while no session is open is a no-op: tasks, *)
(* focusSessions, productivityStats, achievements and currentFocusState    *)
(* are all left as they were.                                              *)
C11_EndWithoutSessionIsNoOp ==
    currentSession = NoSession => endFocusSession(Store, now) = Store

C11_Witness ==
    /\ currentSession = NoSession
    /\ Len(focusSessions) = 1
    /\ tasks # << >>
    /\ productivityStats.totalTimeSpent > 0
    /\ endFocusSession(Store, now) = Store

(* C12: updateTask, deleteTask, completeTask, makeTaskRunAway, the         *)
(* procrastinate handler and startFocusSession, called with an id that is  *)
(* not in tasks, leave the whole store unchanged.                          *)
C12_UnknownIdLeavesStoreUnchanged ==
    \A id \in TaskIds \ DOMAIN tasks :
        /\ \A f \in FormInputs :
              updateTask(Store, id, [importance |-> f.importance, deadline |-> f.deadline]) = Store
        /\ deleteTask(Store, id) = Store
        /\ completeTask(Store, id, now) = Store
        /\ makeTaskRunAway(Store, id, now) = Store
        /\ handleProcrastinate(Store, id, now) = Store
        /\ startFocusSession(Store, id, nextSessionId, now) = Store

(* The table m(d) of the distortion curve, in sixtieths: 60 * (1/2 + d/60), *)
(* 60 * (1 + (d - 30)/30), 60 * (2 + (d - 60)/20), 60 * (3 + (d - 80)/7.5) *)
(* and 60 * (-1)                                                           *)
MultiplierTable(d) ==
    CASE d \in 0..29 -> 30 + d
      [] d \in 30..59 -> 60 + 2 * (d - 30)
      [] d \in 60..79 -> 120 + 3 * (d - 60)
      [] d \in 80..94 -> 180 + (2 * 60 * (d - 80)) \div 15
      [] d \in 95..100 -> -60

(* C13: for every integer distortion level d of 0..100 the multiplier a    *)
(* tick applies while Distorted is m(d) of the table, with m(0) = 0.5,     *)
(* m(30) = 1, m(60) = 2, m(80) = 3 and m(95) = m(100) = -1.                *)
C13_DistortedTickAppliesTable ==
    [][(timerState = TIMER_DISTORTED /\ lastTickTime # Undefined /\ now' # now)
        => /\ timeMultiplier(timerState, distortionLevel) = MultiplierTable(distortionLevel)
           /\ timeRemaining' =
                 Max(0, timeRemaining
                          - (now' - lastTickTime) * MultiplierTable(distortionLevel))
           /\ distortionLevel = 0 => timeMultiplier(timerState, distortionLevel) * 2 = Scale
           /\ distortionLevel = 30 => timeMultiplier(timerState, distortionLevel) = Scale
           /\ distortionLevel = 60 => timeMultiplier(timerState, distortionLevel) = 2 * Scale
           /\ distortionLevel = 80 => timeMultiplier(timerState, distortionLevel) = 3 * Scale
           /\ distortionLevel \in {95, 100} =>
                 timeMultiplier(timerState, distortionLevel) = -Scale]_vars

C13_Witness ==
    /\ timerState = TIMER_DISTORTED
    /\ distortionLevel = 94
    /\ lastTickTime = 200
    /\ timeRemaining = 25 * 60 * Scale - 200 * 292

(* C14: five-tasks-completed is unlocked whenever totalTasksCompleted is 5 *)
(* or more, after any sequence of addTask, completeTask and deleteTask,    *)
(* completed tasks deleted in between included.                            *)
C14_FiveCompletionsUnlock ==
    productivityStats.totalTasksCompleted >= 5
        => achievements["five-tasks-completed"].isUnlocked

(* C15: deadline-warrior is unlocked once at least 3 tasks are completed   *)
(* with completedAt within the 600 seconds before their deadline.          *)
C15_DeadlineWarriorUnlocks ==
    LET onTime == {id \in DOMAIN tasks :
                      /\ tasks[id].status = "completed"
                      /\ tasks[id].deadline # Undefined
                      /\ tasks[id].completedAt <= tasks[id].deadline
                      /\ tasks[id].deadline - tasks[id].completedAt <= 600}
    IN  Cardinality(onTime) >= 3 => achievements["deadline-warrior"].isUnlocked

(* The calendar day of a time in seconds *)
DayOf(t) == t \div (24 * 60 * 60)

(* C16: when a session is closed on day T, currentStreak grows by 1 if the *)
(* last activity day was T - 1, is unchanged if it was T and becomes 1     *)
(* otherwise; then longestStreak is the larger of its old value and        *)
(* currentStreak, lastActiveDay is T, and currentStreak is at least 1.     *)
C16_StreakFollowsClosedSessions ==
    [][(currentSession # NoSession /\ currentSession' = NoSession)
        => LET T == DayOf(now')
               prior == productivityStats.lastActiveDay
               streak == IF prior # Undefined /\ prior = T - 1
                         THEN productivityStats.currentStreak + 1
                         ELSE IF prior # Undefined /\ prior = T
                              THEN productivityStats.currentStreak
                              ELSE 1
           IN  /\ productivityStats'.currentStreak = streak
               /\ productivityStats'.longestStreak =
                     Max(productivityStats.longestStreak, streak)
               /\ productivityStats'.lastActiveDay = T
               /\ productivityStats'.currentStreak >= 1]_vars

(* C17: procrastination-master is unlocked if and only if some task has at *)
(* some point reached running-away: it is locked at first, and after each  *)
(* step it is unlocked exactly when it was unlocked before or some task    *)
(* reached running-away in that step (so it stays unlocked when that task  *)
(* is deleted, and is never unlocked where no task ever ran away).         *)
C17_RunawayUnlocksProcrastinationMaster ==
    [][LET reached == {id \in DOMAIN tasks' :
                          /\ tasks'[id].status = "running-away"
                          /\ id \in DOMAIN tasks => tasks[id].status # "running-away"}
       IN  achievements'["procrastination-master"].isUnlocked
              <=> (ProcrastinationMaster.isUnlocked \/ reached # {})]_vars

(* C18: time-bender is unlocked if and only if focusSessions holds a       *)
(* closed session with distortionLevel > 75 and duration > 14400 seconds;  *)
(* a level of exactly 75 or a duration of exactly 14400 does not unlock.   *)
C18_TimeBenderNeedsLongDistortedSession ==
    achievements["time-bender"].isUnlocked
        <=> \E i \in 1..Len(focusSessions) :
                /\ focusSessions[i].distortionLevel > 75
                /\ focusSessions[i].duration > 14400

C18_Witness ==
    /\ achievements["time-bender"].isUnlocked
    /\ Len(focusSessions) = 1
    /\ focusSessions[1].distortionLevel = 76
    /\ focusSessions[1].duration = 14401

(* C19: reset, from whichever timer state it is invoked in, leaves the     *)
(* timer Idle with the remaining time equal to the configured initial      *)
(* duration and distortion level 0, and leaves no focus session open.      *)
C19_ResetLeavesIdleTimer ==
    [][(mounted /\ mounted' /\ timerState # TIMER_IDLE /\ timerState' = TIMER_IDLE)
        => /\ initialTime' = initialTime
           /\ timeRemaining' = initialTime
           /\ distortionLevel' = 0
           /\ currentSession' = NoSession
           /\ currentFocusState' = "idle"]_vars

C19_Witness ==
    /\ mounted
    /\ timerState = TIMER_IDLE
    /\ initialTime = 5 * 60 * Scale
    /\ timeRemaining = initialTime
    /\ distortionLevel = 0
    /\ currentSession = NoSession
    /\ Len(focusSessions) = 1
    /\ focusSessions[1].distortionLevel = 10
    /\ focusSessions[1].duration = 200

(* C20: whatever level is passed to the store's setDistortionLevel, the    *)
(* distortionLevel of the open session, and of every closed session, lies  *)
(* in 0..100.                                                              *)
C20_StoredDistortionLevelIsClamped ==
    /\ currentSession # NoSession => currentSession.distortionLevel \in 0..100
    /\ \A i \in 1..Len(focusSessions) : focusSessions[i].distortionLevel \in 0..100

(* C21: while the timer is Running (not Distorted) a tick of dt real       *)
(* seconds decreases remaining by dt * m(0), m(0) being the value of the   *)
(* multiplier curve at level 0.                                            *)
C21_RunningTickAppliesCurveAtZero ==
    [][(Ticking /\ timerState = TIMER_RUNNING /\ lastTickTime # Undefined /\ now' # now)
        => timeRemaining' =
              Max(0, timeRemaining - (now' - lastTickTime) * MultiplierTable(0))]_vars

(* C21 as amended: while the timer is Running a tick of dt real seconds    *)
(* decreases remaining by dt (multiplier 1), not below 0.                  *)
C21_RunningTickAppliesRealTime ==
    [][(Ticking /\ timerState = TIMER_RUNNING /\ lastTickTime # Undefined /\ now' # now)
        => timeRemaining' = Max(0, timeRemaining - (now' - lastTickTime) * Scale)]_vars

C21_Witness ==
    /\ timerState = TIMER_RUNNING
    /\ run.plain
    /\ lastTickTime = 200
    /\ initialTime = 25 * 60 * Scale
    /\ timeRemaining = initialTime - 200 * Scale

(* The outcome of one interval callback on a countdown at its initial      *)
(* duration after an elapsed time: remaining, timer state, completions     *)
OneTick(state, elapsed) ==
    LET value == newValue(initialTime, elapsed, timeMultiplier(state, distortionLevel))
        completes == value <= 0 /\ initialTime > 0
    IN  [timeRemaining |-> value,
         timerState |-> IF completes THEN TIMER_COMPLETED ELSE state,
         fired |-> IF completes THEN 1 ELSE 0]

(* C22: the countdown does not depend on tick granularity: at a fixed      *)
(* timer state and distortion level, successive ticks leave the remaining  *)
(* time, the timer state and the number of completion events that a single *)
(* tick of the summed time leaves; once completed, a longer single tick    *)
(* gives the same outcome.                                                 *)
C22_TickGranularityIsIrrelevant ==
    LET here == [timeRemaining |-> timeRemaining, timerState |-> timerState,
                 fired |-> run.fired]
    IN  IF timerState = TIMER_COMPLETED
        THEN \A b \in {0} \cup TimerDeltas :
                here \in {OneTick(state, lastTickTime + b) :
                             state \in {TIMER_RUNNING, TIMER_DISTORTED}}
        ELSE here = OneTick(timerState, now)

C22_Witness ==
    /\ timerState = TIMER_DISTORTED
    /\ distortionLevel = 37
    /\ now = 400
    /\ lastTickTime = 400
    /\ timeRemaining = initialTime - 400 * 74

TimerTransitions ==
    {<<TIMER_IDLE, TIMER_RUNNING>>,
     <<TIMER_RUNNING, TIMER_PAUSED>>, <<TIMER_RUNNING, TIMER_DISTORTED>>,
     <<TIMER_RUNNING, TIMER_COMPLETED>>,
     <<TIMER_DISTORTED, TIMER_RUNNING>>, <<TIMER_DISTORTED, TIMER_PAUSED>>,
     <<TIMER_DISTORTED, TIMER_COMPLETED>>,
     <<TIMER_PAUSED, TIMER_RUNNING>>}

(* C24: every change of the timer state is Idle to Running, Running to     *)
(* Paused, Distorted or Completed, Distorted to Running, Paused or         *)
(* Completed, Paused to Running, or a return to Idle: Running is started   *)
(* only from Idle, Distorted entered only from Running, and Completed left *)
(* only for Idle.                                                          *)
C24_TimerTransitions ==
    [][timerState' # timerState
        => \/ timerState' = TIMER_IDLE
           \/ <<timerState, timerState'>> \in TimerTransitions]_vars

C24_Witness ==
    /\ timerState = TIMER_COMPLETED
    /\ ~run.plain
    /\ distortionLevel = 90
    /\ Len(focusSessions) = 1

(* C25: whenever the timer is Completed no focus session is active: the    *)
(* session that was open when remaining reached 0 is closed and appended   *)
(* to focusSessions in the step that makes the timer Completed.            *)
C25_CompletedTimerHasNoSession ==
    [][/\ timerState' = TIMER_COMPLETED => currentSession' = NoSession
       /\ (timerState # TIMER_COMPLETED /\ timerState' = TIMER_COMPLETED
              /\ currentSession # NoSession)
           => /\ Len(focusSessions') = Len(focusSessions) + 1
              /\ focusSessions'[Len(focusSessions')].id = currentSession.id
              /\ focusSessions'[Len(focusSessions')].endTime = now']_vars

C25_Witness ==
    /\ timerState = TIMER_COMPLETED
    /\ taskId # NoTask
    /\ currentSession = NoSession
    /\ Len(focusSessions) = 1
    /\ focusSessions[1].taskId = taskId
    /\ focusSessions[1].endTime = lastTickTime

(* C26: the procrastinationLevel of every task stays in 0..100 and never   *)
(* decreases, and a task becomes running-away only in a step taken when    *)
(* its level plus 20 reached or exceeded 100.                              *)
C26_ProcrastinationLevelOnlyGrows ==
    [][\A id \in (DOMAIN tasks) \cap (DOMAIN tasks') :
          /\ tasks'[id].procrastinationLevel \in 0..100
          /\ tasks'[id].procrastinationLevel >= tasks[id].procrastinationLevel
          /\ (tasks'[id].status = "running-away" /\ tasks[id].status # "running-away")
                => tasks[id].procrastinationLevel + 20 >= 100]_vars

(* C27: while a timer bound to a task is shown, the store has a current    *)
(* session exactly when the timer is Running, Distorted or Paused; an Idle *)
(* timer, however it was reached, goes with no current session.            *)
C27_SessionActiveIffTimerStarted ==
    (mounted /\ taskId # NoTask) =>
        (currentSession # NoSession <=>
            timerState \in {TIMER_RUNNING, TIMER_DISTORTED, TIMER_PAUSED})

RECURSIVE SumOfDurations(_)
SumOfDurations(sessions) ==
    IF sessions = <<>> THEN 0
    ELSE sessions[1].duration + SumOfDurations(Tail(sessions))

(* C28: no session is lost: every session opened so far is either the      *)
(* current session or appears exactly once in focusSessions, and           *)
(* totalTimeSpent counts the duration of every closed session.             *)
C28_NoSessionIsLost ==
    /\ \A sid \in 1..(nextSessionId - 1) :
          \/ currentSession # NoSession /\ currentSession.id = sid
          \/ Cardinality({i \in 1..Len(focusSessions) : focusSessions[i].id = sid}) = 1
    /\ productivityStats.totalTimeSpent = SumOfDurations(focusSessions)

(* C29: after every step an active session names a task that is in tasks,  *)
(* and a step that closes the session adds to the timeSpent of a listed    *)
(* task exactly what it adds to totalTimeSpent; steps of deleteTask are    *)
(* included.                                                               *)
C29_ActiveSessionOwnedByListedTask ==
    [][/\ currentSession' # NoSession => currentSession'.taskId \in DOMAIN tasks'
       /\ (currentSession # NoSession /\ currentSession' = NoSession)
             => \E owner \in (DOMAIN tasks) \cap (DOMAIN tasks') :
                   /\ owner = currentSession.taskId
                   /\ tasks'[owner].timeSpent - tasks[owner].timeSpent =
                        productivityStats'.totalTimeSpent - productivityStats.totalTimeSpent]_vars

(* C30: time that passes while the timer is Paused is not charged: a step  *)
(* that leaves a shown timer Paused leaves the remaining time unchanged,   *)
(* and the first tick after a resume subtracts the time since the resume   *)
(* times the multiplier in force, clamped at 0.                            *)
C30_PausedTimeIsNotCharged ==
    [][/\ (mounted /\ timerState = TIMER_PAUSED /\ mounted' /\ timerState' = TIMER_PAUSED)
            => timeRemaining' = timeRemaining
       /\ (run.resumed # Undefined /\ \E dt \in TimerDeltas : Tick(dt))
            => timeRemaining' =
                  Max(0, timeRemaining
                         - (now' - run.resumed) * timeMultiplier(timerState, distortionLevel))]_vars

C30_Witness ==
    /\ timerState = TIMER_RUNNING
    /\ ~run.plain
    /\ run.resumed = Undefined
    /\ currentSession # NoSession
    /\ currentSession.startTime = 0
    /\ now = 400
    /\ lastTickTime = 400
    /\ distortionLevel = 0
    /\ timeRemaining = initialTime - 200 * Scale

====
